---- MODULE Spec2Model ----
(***************************************************************************)
(* HID RFID reader (Wiegand interface), HID_RFID_Reader_LCD.ino.           *)
(*                                                                         *)
(* Two contexts share the globals databits, bitCount, flagDone and         *)
(* weigand_counter: the interrupt handlers ISR_INT0 / ISR_INT1 (one call   *)
(* per falling edge; on the AVR a handler runs with interrupts disabled,   *)
(* so a handler is one atomic step) and loop(), whose statements are       *)
(* modelled one shared-memory access per step (pc names the source line    *)
(* about to execute), so that a handler can run between any two of them.   *)
(* The globals are not volatile and no critical section is used.           *)
(***************************************************************************)
EXTENDS Integers, Sequences, FiniteSets, TLC

\* ------------------------------------------------------------ constants

\* #define MAX_BITS 100
MAX_BITS == 100

\* #define WEIGAND_WAIT_TIME 3000, scaled down: the countdown is a chain of
\* that many identical ticks, and every value used here keeps the high byte
\* of the 16-bit counter at 0 as long as it stays below 256.
WEIGAND_WAIT_TIME == 3

\* Pulses the environment may deliver one at a time, at any point of loop(),
\* after the initial burst (Spec).
MaxPulses == 2

\* Bits of a frame that differ from the all-0 / all-1 base frame (SpecFrames).
MaxFlips == 1

\* unsigned char bitCount / unsigned char i
CHAR_MOD == 256
\* unsigned int weigand_counter (16 bits on the AVR)
UINT_MOD == 65536
\* unsigned long facilityCode / cardCode are 32 bits wide; a pass shifts each at
\* most 20 times from a value below 256, so neither reaches 2^32 (FieldsInRange).

\* if (bitCount == 35): facility code for (i=2; i<14), card code for (i=14; i<34)
LEN_35 == 35
FAC35_FROM == 2
FAC35_TO == 14
CARD35_FROM == 14
CARD35_TO == 34
\* mutant: the 26-bit facility field begun at bit 2, as the source's comment
\* "facility code = bits 2 to 9" reads
FAC26_FROM_AsCommented == 1 + 1
\* else if (bitCount == 26): facility code for (i=1; i<9), card code for (i=9; i<25)
LEN_26 == 26
FAC26_FROM == 1
FAC26_TO == 9
CARD26_FROM == 9
CARD26_TO == 25

VARIABLES
    databits,         \* unsigned char databits[MAX_BITS]
    bitCount,         \* unsigned char bitCount
    flagDone,         \* unsigned char flagDone
    weigand_counter,  \* unsigned int weigand_counter
    facilityCode,     \* unsigned long facilityCode
    cardCode,         \* unsigned long cardCode
    pc,               \* the line of loop() about to execute
    i,                \* loop()'s local unsigned char i
    rCounter,         \* register: the value of weigand_counter loaded at line 101
    rFlag,            \* register: flagDone as loop() last read or wrote it
    rCount,           \* register: bitCount as loop() last read it
    led13,            \* pin 13
    grn,              \* PIN_GRN_LED
    red,              \* PIN_RED_LED
    lcd,              \* what the LCD shows
    pub,              \* what this pass of the block has written to Serial
    decodes,          \* history: decode dispatches (line 117) in this pass
    publishes,        \* history: outcomes published in this pass
    snapCount,        \* history: bitCount as line 106 read it on this pass
    snap,             \* history: databits and bitCount when line 106's test passed
    accepted,         \* history: values of the pulses accepted since the last clear
    lastWrite,        \* history: index of the last databits cell a handler wrote (-1: none)
    quiet,            \* history: timer ticks since the last handler call (capped)
    unpublished,      \* history: pulses accepted since the last outcome was published
    train,            \* environment: the bits of a burst still to come
    budget            \* environment: single pulses still to come

ghost == <<decodes, publishes, snapCount, snap, accepted, lastWrite, quiet,
          unpublished>>
env == <<train, budget>>
outputs == <<led13, grn, red, lcd, pub>>
regs == <<i, rCounter, rFlag, rCount>>
vars == <<databits, bitCount, flagDone, weigand_counter, facilityCode, cardCode,
          pc, regs, outputs, ghost, env>>

Min(a, b) == IF a < b THEN a ELSE b

\* ------------------------------------------------------------ handlers

\* The globals a handler reads or writes, with the history it extends.
Shared ==
    [databits |-> databits, bitCount |-> bitCount, flagDone |-> flagDone,
     weigand_counter |-> weigand_counter, facilityCode |-> facilityCode,
     cardCode |-> cardCode, accepted |-> accepted, lastWrite |-> lastWrite,
     quiet |-> quiet, unpublished |-> unpublished]

Store(t) ==
    /\ databits' = t.databits
    /\ bitCount' = t.bitCount
    /\ flagDone' = t.flagDone
    /\ weigand_counter' = t.weigand_counter
    /\ facilityCode' = t.facilityCode
    /\ cardCode' = t.cardCode
    /\ accepted' = t.accepted
    /\ lastWrite' = t.lastWrite
    /\ quiet' = t.quiet
    /\ unpublished' = t.unpublished

\* void ISR_INT0(): bitCount++; flagDone = 0; weigand_counter = WEIGAND_WAIT_TIME;
\* The cell databits[bitCount] is not written: a 0 bit is whatever the cell holds.
Int0(s) ==
    [s EXCEPT !.bitCount = (@ + 1) % CHAR_MOD,
              !.flagDone = 0,
              !.weigand_counter = WEIGAND_WAIT_TIME,
              !.accepted = Append(@, 0),
              !.unpublished = @ + 1,
              !.quiet = 0]

\* What the store databits[bitCount] = 1 hits when bitCount >= MAX_BITS: the
\* bytes that follow the array are whatever the linker placed there.  "none"
\* is memory this model does not hold; flagDone and weigand_counter are not
\* listed because the handler overwrites both right after the store; of the
\* four bytes of facilityCode and of cardCode the lowest stands for all.
Victims == {"none", "bitCount", "facilityCode", "cardCode"}

\* x with its lowest byte set to 1
SetLowByte(x) == x - (x % 256) + 1

\* void ISR_INT1(): databits[bitCount] = 1; bitCount++; flagDone = 0;
\* weigand_counter = WEIGAND_WAIT_TIME;   (no comparison with MAX_BITS)
Int1(s, victim) ==
    LET idx == s.bitCount
        w == IF idx < MAX_BITS
               THEN [s EXCEPT !.databits[idx] = 1]
               ELSE CASE victim = "bitCount" -> [s EXCEPT !.bitCount = 1]
                      [] victim = "facilityCode" ->
                            [s EXCEPT !.facilityCode = SetLowByte(@)]
                      [] victim = "cardCode" ->
                            [s EXCEPT !.cardCode = SetLowByte(@)]
                      [] OTHER -> s
    IN  [w EXCEPT !.bitCount = (@ + 1) % CHAR_MOD,
                  !.flagDone = 0,
                  !.weigand_counter = WEIGAND_WAIT_TIME,
                  !.accepted = Append(@, 1),
                  !.unpublished = @ + 1,
                  !.lastWrite = idx,
                  !.quiet = 0]

\* A falling edge: the next bit of the burst under way or, when none is, one
\* of the single pulses left.
Edge(b) ==
    IF train # <<>>
      THEN Head(train) = b /\ train' = Tail(train) /\ budget' = budget
      ELSE budget > 0 /\ budget' = budget - 1 /\ train' = train

ISR_INT0 ==
    /\ Edge(0)
    /\ Store(Int0(Shared))
    /\ UNCHANGED <<pc, regs, outputs, decodes, publishes, snapCount, snap>>

ISR_INT1 ==
    /\ Edge(1)
    /\ \E victim \in Victims :
          /\ bitCount < MAX_BITS => victim = "none"
          /\ Store(Int1(Shared, victim))
    /\ UNCHANGED <<pc, regs, outputs, decodes, publishes, snapCount, snap>>

\* ------------------------------------------------------------ setup

LcdWait == [text |-> "Please tap RFID card...", facility |-> 0, card |-> 0]
NoPub == [bits |-> 0, msg |-> "", facility |-> 0, card |-> 0]

\* no pass under way: nothing captured
NoSnap == [databits |-> [n \in 0..(MAX_BITS - 1) |-> 0], bitCount |-> 0]

\* The globals' initializers and setup(): weigand_counter = WEIGAND_WAIT_TIME,
\* the three indicator pins HIGH, the LCD showing the prompt.
Setup ==
    [databits |-> [n \in 0..(MAX_BITS - 1) |-> 0], bitCount |-> 0, flagDone |-> 0,
     weigand_counter |-> WEIGAND_WAIT_TIME, facilityCode |-> 0, cardCode |-> 0,
     accepted |-> <<>>, lastWrite |-> -1, quiet |-> 0, unpublished |-> 0]

InitMain ==
    /\ pc = "L100"
    /\ i = 0 /\ rCounter = 0 /\ rFlag = 0 /\ rCount = 0
    /\ led13 = "LOW" /\ grn = "HIGH" /\ red = "HIGH"
    /\ lcd = LcdWait /\ pub = NoPub
    /\ decodes = 0 /\ publishes = 0 /\ snapCount = 0 /\ snap = NoSnap

InitShared ==
    /\ databits = Setup.databits
    /\ bitCount = Setup.bitCount
    /\ flagDone = Setup.flagDone
    /\ weigand_counter = Setup.weigand_counter
    /\ facilityCode = Setup.facilityCode
    /\ cardCode = Setup.cardCode
    /\ accepted = Setup.accepted
    /\ lastWrite = Setup.lastWrite
    /\ quiet = Setup.quiet
    /\ unpublished = Setup.unpublished

\* ------------------------------------------------------------ loop(): the timer tick

\* loop() is about to execute line l.  The bits of a burst arrive back to back:
\* loop() does not get to run between them.
At(l) == pc = l /\ train = <<>>

\* mutant: the countdown decremented on every pass, without line 100's test
L100_NoTest ==
    /\ At("L100")
    /\ rFlag' = flagDone
    /\ pc' = "L101r"
    /\ quiet' = quiet
    /\ UNCHANGED <<databits, bitCount, flagDone, weigand_counter, facilityCode,
                   cardCode, i, rCounter, rCount, outputs, decodes, publishes,
                   snapCount, snap, accepted, lastWrite, unpublished, env>>

\* line 100: if (!flagDone)
L100 ==
    /\ At("L100")
    /\ rFlag' = flagDone
    /\ IF flagDone = 0
         THEN pc' = "L101r" /\ quiet' = quiet
         ELSE pc' = "L106c" /\ quiet' = Min(quiet + 1, WEIGAND_WAIT_TIME)
    /\ UNCHANGED <<databits, bitCount, flagDone, weigand_counter, facilityCode,
                   cardCode, i, rCounter, rCount, outputs, decodes, publishes,
                   snapCount, snap, accepted, lastWrite, unpublished, env>>

\* line 101, --weigand_counter: the load of the 16-bit counter
L101r ==
    /\ At("L101r")
    /\ rCounter' = weigand_counter
    /\ pc' = "L101w"
    /\ UNCHANGED <<databits, bitCount, flagDone, weigand_counter, facilityCode,
                   cardCode, i, rFlag, rCount, outputs, ghost, env>>

\* mutant: line 101 as weigand_counter-- == 0, comparing the value before the
\* decrement
L101w_PostDecrement ==
    /\ At("L101w")
    /\ weigand_counter' = (rCounter - 1) % UINT_MOD
    /\ pc' = IF rCounter = 0 THEN "L102" ELSE "L106c"
    /\ rCounter' = 0
    /\ quiet' = Min(quiet + 1, WEIGAND_WAIT_TIME)
    /\ UNCHANGED <<databits, bitCount, flagDone, facilityCode, cardCode, i, rFlag,
                   rCount, outputs, decodes, publishes, snapCount, snap, accepted,
                   lastWrite, unpublished, env>>

\* line 101, --weigand_counter == 0: the store of the decremented value and the
\* comparison of the register with 0
L101w ==
    /\ At("L101w")
    /\ LET r == (rCounter - 1) % UINT_MOD IN
          /\ weigand_counter' = r
          /\ pc' = IF r = 0 THEN "L102" ELSE "L106c"
    /\ rCounter' = 0
    /\ quiet' = Min(quiet + 1, WEIGAND_WAIT_TIME)
    /\ UNCHANGED <<databits, bitCount, flagDone, facilityCode, cardCode, i, rFlag,
                   rCount, outputs, decodes, publishes, snapCount, snap, accepted,
                   lastWrite, unpublished, env>>

\* line 102: flagDone = 1
L102 ==
    /\ At("L102")
    /\ flagDone' = 1
    /\ rFlag' = 1
    /\ pc' = "L106c"
    /\ UNCHANGED <<databits, bitCount, weigand_counter, facilityCode, cardCode, i,
                   rCounter, rCount, outputs, ghost, env>>

\* mutant: line 106 without its bitCount > 0 test
L106c_FlagOnly ==
    /\ At("L106c")
    /\ snapCount' = bitCount
    /\ snap' = snap
    /\ pc' = "L106f"
    /\ UNCHANGED <<databits, bitCount, flagDone, weigand_counter, facilityCode,
                   cardCode, regs, outputs, decodes, publishes, accepted,
                   lastWrite, quiet, unpublished, env>>

\* line 106: if (bitCount > 0 && ...
L106c ==
    /\ At("L106c")
    /\ snapCount' = bitCount
    /\ snap' = snap
    /\ pc' = IF bitCount > 0 THEN "L106f" ELSE "L100"
    /\ UNCHANGED <<databits, bitCount, flagDone, weigand_counter, facilityCode,
                   cardCode, regs, outputs, decodes, publishes, accepted,
                   lastWrite, quiet, unpublished, env>>

\* line 106: ... && flagDone).  flagDone is not volatile and no call separates
\* this read from lines 100-102, so the build may test the value it already
\* holds in a register instead of loading it again.
L106f ==
    /\ At("L106f")
    /\ \E v \in {flagDone, rFlag} :
          /\ pc' = IF v # 0 THEN "L109" ELSE "L100"
          /\ snapCount' = IF v # 0 THEN snapCount ELSE 0
          /\ snap' = IF v # 0 THEN [databits |-> databits, bitCount |-> bitCount]
                      ELSE NoSnap
    /\ UNCHANGED <<databits, bitCount, flagDone, weigand_counter, facilityCode,
                   cardCode, regs, outputs, decodes, publishes, accepted,
                   lastWrite, quiet, unpublished, env>>

Tick == L100 \/ L101r \/ L101w \/ L102 \/ L106c \/ L106f

\* ------------------------------------------------------------ loop(): the block of line 106

\* lines 109-111: digitalWrite(13, HIGH); Serial.print("Read ");
L109 ==
    /\ At("L109")
    /\ led13' = "HIGH"
    /\ pub' = [pub EXCEPT !.msg = "Read"]
    /\ pc' = "L112"
    /\ UNCHANGED <<databits, bitCount, flagDone, weigand_counter, facilityCode,
                   cardCode, regs, grn, red, lcd, ghost, env>>

\* lines 112-113: Serial.print(bitCount); Serial.print(" bits. ");
L112 ==
    /\ At("L112")
    /\ pub' = [pub EXCEPT !.bits = bitCount]
    /\ pc' = "L117"
    /\ UNCHANGED <<databits, bitCount, flagDone, weigand_counter, facilityCode,
                   cardCode, regs, led13, grn, red, lcd, ghost, env>>

\* line 117: if (bitCount == 35)
L117 ==
    /\ At("L117")
    /\ rCount' = bitCount
    /\ decodes' = decodes + 1
    /\ pc' = IF bitCount = LEN_35 THEN "L120" ELSE "L140"
    /\ UNCHANGED <<databits, bitCount, flagDone, weigand_counter, facilityCode,
                   cardCode, i, rCounter, rFlag, outputs, publishes, snapCount, snap,
                   accepted, lastWrite, quiet, unpublished, env>>

\* a branch's first statements: digitalWrite(PIN_GRN_LED, LOW); and the first
\* loop's i = from
Enter(from, next) ==
    /\ grn' = "LOW"
    /\ i' = from
    /\ pc' = next
    /\ UNCHANGED <<databits, bitCount, flagDone, weigand_counter, facilityCode,
                   cardCode, rCounter, rFlag, rCount, led13, red, lcd, pub, ghost, env>>

\* x <<= 1; x |= b;  for b in {0, 1} the bit shifted in is 0, so | adds b
ShiftOr(x, b) == x * 2 + b

\* one test of for (...; i<to; i++) { facilityCode <<=1; facilityCode |= databits[i]; }
\* and, when it fails, the next statement's i = nextI
FacilityLoop(to, nextI, next) ==
    /\ IF i < to
         THEN /\ facilityCode' = ShiftOr(facilityCode, databits[i])
              /\ i' = (i + 1) % CHAR_MOD
              /\ pc' = pc
         ELSE /\ facilityCode' = facilityCode
              /\ i' = nextI
              /\ pc' = next
    /\ UNCHANGED <<databits, bitCount, flagDone, weigand_counter, cardCode,
                   rCounter, rFlag, rCount, outputs, ghost, env>>

\* one test of for (...; i<to; i++) { cardCode <<=1; cardCode |= databits[i]; }
CardLoop(to, next) ==
    /\ IF i < to
         THEN /\ cardCode' = ShiftOr(cardCode, databits[i])
              /\ i' = (i + 1) % CHAR_MOD
              /\ pc' = pc
         ELSE /\ cardCode' = cardCode
              /\ i' = i
              /\ pc' = next
    /\ UNCHANGED <<databits, bitCount, flagDone, weigand_counter, facilityCode,
                   rCounter, rFlag, rCount, outputs, ghost, env>>

\* void printBits(): facilityCode and cardCode to Serial and to the LCD
printBits ==
    /\ pub' = [pub EXCEPT !.msg = "Decoded", !.facility = facilityCode,
                          !.card = cardCode]
    /\ lcd' = [text |-> "Facility: Card:", facility |-> facilityCode,
               card |-> cardCode]
    /\ publishes' = publishes + 1
    /\ unpublished' = 0
    /\ UNCHANGED <<databits, bitCount, flagDone, weigand_counter, facilityCode,
                   cardCode, regs, led13, grn, red, decodes, snapCount, snap, accepted,
                   lastWrite, quiet, env>>

\* lines 120-137: the 35 bit HID Corporate 1000 format
L120 == At("L120") /\ Enter(FAC35_FROM, "L124")
L124 == At("L124") /\ FacilityLoop(FAC35_TO, CARD35_FROM, "L131")
L131 == At("L131") /\ CardLoop(CARD35_TO, "L137")
L137 == At("L137") /\ printBits /\ pc' = "L170"

\* mutant: line 140 comparing with >= instead of ==
L140_AtLeast ==
    /\ At("L140")
    /\ \E v \in {bitCount, rCount} :
          pc' = IF v >= LEN_26 THEN "L143" ELSE "L164"
    /\ rCount' = 0
    /\ UNCHANGED <<databits, bitCount, flagDone, weigand_counter, facilityCode,
                   cardCode, i, rCounter, rFlag, outputs, ghost, env>>

\* line 140: else if (bitCount == 26).  No call separates this read of bitCount
\* from line 117's, so the build may compare the value it loaded there.
L140 ==
    /\ At("L140")
    /\ \E v \in {bitCount, rCount} :
          pc' = IF v = LEN_26 THEN "L143" ELSE "L164"
    /\ rCount' = 0
    /\ UNCHANGED <<databits, bitCount, flagDone, weigand_counter, facilityCode,
                   cardCode, i, rCounter, rFlag, outputs, ghost, env>>

\* lines 143-160: the standard 26 bit format
L143 == At("L143") /\ Enter(FAC26_FROM, "L147")
L147 == At("L147") /\ FacilityLoop(FAC26_TO, CARD26_FROM, "L154")
L154 == At("L154") /\ CardLoop(CARD26_TO, "L160")
L160 == At("L160") /\ printBits /\ pc' = "L170"

\* lines 164-167: digitalWrite(PIN_RED_LED, LOW); Serial.println("Unable to decode.");
L164 ==
    /\ At("L164")
    /\ red' = "LOW"
    /\ pub' = [pub EXCEPT !.msg = "Unable to decode."]
    /\ publishes' = publishes + 1
    /\ unpublished' = 0
    /\ pc' = "L170"
    /\ UNCHANGED <<databits, bitCount, flagDone, weigand_counter, facilityCode,
                   cardCode, regs, led13, grn, lcd, decodes, snapCount, snap, accepted,
                   lastWrite, quiet, env>>

\* line 170: digitalWrite(13, LOW);
L170 ==
    /\ At("L170")
    /\ led13' = "LOW"
    /\ pc' = "L172"
    /\ UNCHANGED <<databits, bitCount, flagDone, weigand_counter, facilityCode,
                   cardCode, regs, grn, red, lcd, pub, ghost, env>>

\* line 172: delay(2000); interrupts stay enabled while it waits
L172 ==
    /\ At("L172")
    /\ pc' = "L175"
    /\ UNCHANGED <<databits, bitCount, flagDone, weigand_counter, facilityCode,
                   cardCode, regs, outputs, ghost, env>>

\* mutant: the cleanup without bitCount = 0
L175_KeepCount ==
    /\ At("L175")
    /\ accepted' = <<>>
    /\ lastWrite' = -1
    /\ pc' = "L176"
    /\ UNCHANGED <<databits, bitCount, flagDone, weigand_counter, facilityCode,
                   cardCode, regs, outputs, decodes, publishes, snapCount, snap, quiet,
                   unpublished, env>>

\* line 175: bitCount = 0;
L175 ==
    /\ At("L175")
    /\ bitCount' = 0
    /\ accepted' = <<>>
    /\ lastWrite' = -1
    /\ pc' = "L176"
    /\ UNCHANGED <<databits, flagDone, weigand_counter, facilityCode, cardCode,
                   regs, outputs, decodes, publishes, snapCount, snap, quiet, unpublished, env>>

\* mutant: the cleanup re-arming the countdown as setup() does
L176_Rearm ==
    /\ At("L176")
    /\ facilityCode' = 0
    /\ cardCode' = 0
    /\ weigand_counter' = WEIGAND_WAIT_TIME
    /\ i' = 0
    /\ pc' = "L178"
    /\ UNCHANGED <<databits, bitCount, flagDone, rCounter, rFlag, rCount, outputs,
                   ghost, env>>

\* lines 176-178: facilityCode = 0; cardCode = 0; and the loop's i = 0
L176 ==
    /\ At("L176")
    /\ facilityCode' = 0
    /\ cardCode' = 0
    /\ i' = 0
    /\ pc' = "L178"
    /\ UNCHANGED <<databits, bitCount, flagDone, weigand_counter, rCounter, rFlag,
                   rCount, outputs, ghost, env>>

\* lines 178-181: one test of for (i=0; i<MAX_BITS; i++) { databits[i] = 0; }
L178 ==
    /\ At("L178")
    /\ IF i < MAX_BITS
         THEN /\ databits' = [databits EXCEPT ![i] = 0]
              /\ i' = (i + 1) % CHAR_MOD
              /\ pc' = "L178"
         ELSE /\ databits' = databits
              /\ i' = i
              /\ pc' = "L183"
    /\ UNCHANGED <<bitCount, flagDone, weigand_counter, facilityCode, cardCode,
                   rCounter, rFlag, rCount, outputs, ghost, env>>

\* lines 183-190: both LEDs off, the LCD back to the prompt; the pass is over
L183 ==
    /\ At("L183")
    /\ grn' = "HIGH"
    /\ red' = "HIGH"
    /\ lcd' = LcdWait
    /\ pub' = NoPub
    /\ decodes' = 0
    /\ publishes' = 0
    /\ snapCount' = 0
    /\ snap' = NoSnap
    /\ i' = 0
    /\ pc' = "L100"
    /\ UNCHANGED <<databits, bitCount, flagDone, weigand_counter, facilityCode,
                   cardCode, rCounter, rFlag, rCount, led13, accepted, lastWrite,
                   quiet, unpublished, env>>

Block ==
    \/ L109 \/ L112 \/ L117 \/ L120 \/ L124 \/ L131 \/ L137 \/ L140 \/ L143
    \/ L147 \/ L154 \/ L160 \/ L164 \/ L170 \/ L172 \/ L175 \/ L176 \/ L178
    \/ L183

\* void loop(), one step of it
loop == Tick \/ Block

\* ------------------------------------------------------------ the environment

\* n bits of value b, the bits at the (0-based) positions of S flipped
Frame(n, b, S) == [k \in 1..n |-> IF (k - 1) \in S THEN 1 - b ELSE b]

\* the sets of at most m positions below n
RECURSIVE FlipSets(_, _)
FlipSets(n, m) ==
    IF m = 0 THEN {{}}
    ELSE LET prev == FlipSets(n, m - 1)
         IN  prev \cup {S \cup {x} : S \in prev, x \in 0..(n - 1)}

\* Spec: a burst between setup() and the first pass of loop(), then single
\* pulses at any point of loop().
StartLens == {0, 1, LEN_26 - 1, LEN_26, LEN_35, MAX_BITS - 1, MAX_BITS}
\* bursts on DATA0 long enough to take the 8-bit bitCount to 255, and round to
\* 26; and one of 256 pulses whose first is on DATA1
LongLens == {CHAR_MOD - 1, CHAR_MOD + LEN_26}
StartFrames ==
    {Frame(n, b, {}) : n \in StartLens, b \in {0, 1}}
    \cup {Frame(n, 0, {}) : n \in LongLens}
    \cup {Frame(CHAR_MOD, 0, {0})}

Init ==
    /\ InitShared
    /\ InitMain
    /\ train \in StartFrames
    /\ budget = MaxPulses

Next == ISR_INT0 \/ ISR_INT1 \/ loop

Spec == Init /\ [][Next]_vars

\* SpecFrames: whole frames, each begun while loop() is at line 100 with no bits
\* captured and delivered as one burst, so that no handler runs inside the
\* block of line 106.
DecodedLens == {LEN_26, LEN_35}
OtherLens == {1, 2, LEN_26 - 1, LEN_26 + 1, LEN_35 - 1, LEN_35 + 1, MAX_BITS}
Frames ==
    {Frame(n, b, S) : n \in DecodedLens, b \in {0, 1}, S \in FlipSets(CARD35_TO + 1, MaxFlips)}
    \cup {Frame(n, b, {}) : n \in OtherLens, b \in {0, 1}}

PulseTrain ==
    /\ pc = "L100"
    /\ bitCount = 0
    /\ train = <<>>
    /\ train' \in Frames \ {<<>>}
    /\ UNCHANGED <<databits, bitCount, flagDone, weigand_counter, facilityCode,
                   cardCode, pc, regs, outputs, ghost, budget>>

InitFrames ==
    /\ InitShared
    /\ InitMain
    /\ train = <<>>
    /\ budget = 0

NextFrames == PulseTrain \/ ISR_INT0 \/ ISR_INT1 \/ loop

SpecFrames == InitFrames /\ [][NextFrames]_vars

\* SpecTwice: SpecFrames with the decode step of lines 117-161 applied a second
\* time to the same buffer before the cleanup.  facilityCode and cardCode are
\* 32 bits wide and a second application shifts cardCode up to 20 more times:
\* it is tried on the results that stay below 2^31 after it.
Redecode ==
    /\ At("L170")
    /\ decodes = 1
    /\ cardCode < 2 ^ (31 - (CARD35_TO - CARD35_FROM))
    /\ pc' = "L117"
    /\ UNCHANGED <<databits, bitCount, flagDone, weigand_counter, facilityCode,
                   cardCode, regs, outputs, ghost, env>>

NextTwice == PulseTrain \/ ISR_INT0 \/ ISR_INT1 \/ loop \/ Redecode

SpecTwice == InitFrames /\ [][NextTwice]_vars

\* SpecOverlap: SpecFrames, and a frame may also begin while loop() is still in
\* the cleanup of the previous pass, right after line 175's bitCount = 0 or
\* after the loop of line 178: the reader does not wait for the controller.
\* ClearFrames are the frames tried there, one of them over capacity.
ClearFrames ==
    {Frame(n, b, {}) : n \in DecodedLens \cup {1, MAX_BITS + 1}, b \in {0, 1}}

PulseTrainInClear ==
    /\ pc \in {"L176", "L183"}
    /\ bitCount = 0
    /\ accepted = <<>>
    /\ train = <<>>
    /\ train' \in ClearFrames
    /\ UNCHANGED <<databits, bitCount, flagDone, weigand_counter, facilityCode,
                   cardCode, pc, regs, outputs, ghost, budget>>

NextOverlap ==
    PulseTrain \/ PulseTrainInClear \/ ISR_INT0 \/ ISR_INT1 \/ loop

SpecOverlap == InitFrames /\ [][NextOverlap]_vars

\* ------------------------------------------------------------ properties

\* The pcs of loop() outside the block of line 106, and inside it
TickPcs == {"L100", "L101r", "L101w", "L102", "L106c", "L106f"}
\* the outcome has been published and bitCount is not yet cleared
Published == {"L170", "L172", "L175"}

\* unsigned long never wraps: the values stay far below 2^32
FieldsInRange == facilityCode < 2 ^ 14 /\ cardCode < 2 ^ 22

\* The number written MSB-first by the bits from (0-based) position from up to,
\* not including, position to of the pulse sequence bits
RECURSIVE FieldValue(_, _, _)
FieldValue(bits, from, to) ==
    IF from >= to THEN 0
    ELSE bits[from + 1] * 2 ^ (to - 1 - from) + FieldValue(bits, from + 1, to)

C7_Undecodable ==
    /\ (pc \in Published /\ Len(accepted) > 0 /\ Len(accepted) \notin {26, 35}) =>
          /\ pub = [bits |-> Len(accepted), msg |-> "Unable to decode.",
                    facility |-> 0, card |-> 0]
          /\ red = "LOW"
          /\ grn = "HIGH"
          /\ lcd = LcdWait
          /\ publishes = 1
    /\ (pc = "L183" /\ red = "LOW") =>
          /\ bitCount = 0
          /\ \A n \in 0..(MAX_BITS - 1) : databits[n] = 0

\* a 27-bit frame has been reported as undecodable
C7_Witness ==
    /\ pc = "L172"
    /\ Len(accepted) = 27
    /\ pub.msg = "Unable to decode."
    /\ red = "LOW"

\* ------------------------------------------------------------ interleaved properties (Spec)

BeforeDispatch == {"L109", "L112", "L117"}
Decoding == {"L120", "L124", "L131", "L137", "L140", "L143", "L147", "L154",
             "L160", "L164"}
AfterPublish == {"L170", "L172", "L175", "L176", "L178", "L183"}
Clear == L175 \/ L176 \/ L178 \/ L183
Pulse == ISR_INT0 \/ ISR_INT1

\* loop() with a scheduler that keeps running it
FairSpec == Spec /\ WF_vars(loop)

\* C2: the block of line 106 is entered only after at least WEIGAND_WAIT_TIME
\* timer ticks have passed since the last accepted pulse.
C2_SilenceBeforeReady == pc = "L109" => quiet = WEIGAND_WAIT_TIME

\* C3: a pass through the block dispatches the decode once and publishes one
\* outcome, never none and never two; the frame it processes holds at least one
\* pulse accepted since the previous clear (no frame is processed twice); and
\* when line 106 finds bits and the boundary flag set, the block is entered.
C3_OncePerFrame ==
    /\ [](pc \in TickPcs \cup BeforeDispatch => decodes = 0 /\ publishes = 0)
    /\ [](pc \in Decoding => decodes = 1 /\ publishes = 0)
    /\ [](pc \in AfterPublish => decodes = 1 /\ publishes = 1)
    /\ [](pc \in BeforeDispatch \cup Decoding \cup Published => accepted # <<>>)
    /\ [][(pc = "L106f" /\ flagDone # 0 /\ pc' # pc) => pc' = "L109"]_vars

\* a decoded frame has been published once and cleared
C3_Witness ==
    /\ pc = "L183"
    /\ decodes = 1
    /\ publishes = 1
    /\ lcd.text = "Facility: Card:"
    /\ bitCount = 0

\* C4: a handler called with bitCount = MAX_BITS changes none of databits,
\* bitCount, flagDone and weigand_counter.
C4_RejectedAtCapacity ==
    [][(bitCount = MAX_BITS /\ Pulse) =>
          UNCHANGED <<databits, bitCount, flagDone, weigand_counter>>]_vars

\* C5: bitCount never exceeds MAX_BITS and no handler stores at an index of
\* databits at or beyond MAX_BITS.
C5_WithinCapacity == bitCount <= MAX_BITS /\ lastWrite < MAX_BITS

C8_EventuallyPublished ==
    (budget = 0 /\ train = <<>>) ~>
        (unpublished = 0 /\ bitCount = 0 /\ pc = "L100")

\* C9: with bitCount = 0 the block is never entered, whatever flagDone is: no
\* pass starts on a count of 0, outside the block the indicators and the LCD
\* are idle and nothing is published, line 106 goes back to line 100 changing
\* nothing, and the next pulse starts a frame of one bit with the flag cleared
\* and the full countdown.
C9_SpuriousBoundary ==
    /\ [](pc \notin TickPcs => snapCount > 0)
    /\ [](pc \in TickPcs =>
             /\ led13 = "LOW" /\ grn = "HIGH" /\ red = "HIGH"
             /\ lcd = LcdWait /\ pub = NoPub)
    /\ [][(pc = "L106c" /\ bitCount = 0 /\ pc' # pc) =>
             /\ pc' = "L100"
             /\ UNCHANGED <<databits, bitCount, flagDone, weigand_counter,
                            facilityCode, cardCode, outputs>>]_vars
    /\ [][(bitCount = 0 /\ flagDone = 1 /\ pc \in TickPcs /\ Pulse) =>
             /\ bitCount' = 1
             /\ flagDone' = 0
             /\ weigand_counter' = WEIGAND_WAIT_TIME]_vars

\* the countdown has run out for the first time after setup() with no pulse
\* received, and loop() is back at line 100
C9_Witness ==
    /\ pc = "L100"
    /\ flagDone = 1
    /\ weigand_counter = 0
    /\ bitCount = 0
    /\ train = <<>>
    /\ budget = MaxPulses
    /\ quiet = WEIGAND_WAIT_TIME

\* C10: every cell below bitCount holds the value of the pulse accepted at
\* that position since the last clear.
C10_BufferHoldsPulses ==
    \A k \in 0..(bitCount - 1) :
        /\ k < MAX_BITS
        /\ k < Len(accepted)
        /\ databits[k] = accepted[k + 1]

\* C11: a frame of more than MAX_BITS pulses is never skipped at its boundary
\* (line 106 finds bitCount > 0) and what is published for it is the failure
\* indication, never a facility/card pair.
C11_OverflowReported ==
    Len(accepted) > MAX_BITS =>
        /\ bitCount > 0
        /\ pc \in Published => (pub.msg = "Unable to decode." /\ lcd = LcdWait)

\* the decode step: lines 117-161 (and the else branch of lines 164-167)
Decode ==
    \/ L117 \/ L120 \/ L124 \/ L131 \/ L137 \/ L140 \/ L143 \/ L147 \/ L154
    \/ L160 \/ L164

\* C12: the decode step writes neither databits nor bitCount, and a second
\* application to the same buffer, with no clear between the two, ends with the
\* facilityCode and cardCode that the first one printed.
C12_DecodeIdempotent ==
    /\ [][Decode => UNCHANGED <<databits, bitCount>>]_vars
    /\ []((decodes = 2 /\ pc \in {"L137", "L160"}) =>
             (facilityCode = pub.facility /\ cardCode = pub.card))

\* What loop() publishes for the pulse sequence bits when it is the first frame
\* after setup() (C1, C7; bitCount counts modulo 256)
OwnOutcome(bits) ==
    LET n == Len(bits) % CHAR_MOD IN
    IF n = 35
      THEN [msg |-> "Decoded", facility |-> FieldValue(bits, 2, 14),
            card |-> FieldValue(bits, 14, 34)]
    ELSE IF n = 26
      THEN [msg |-> "Decoded", facility |-> FieldValue(bits, 1, 9),
            card |-> FieldValue(bits, 9, 25)]
    ELSE [msg |-> "Unable to decode.", facility |-> 0, card |-> 0]

\* C13: what is published for a frame (decoded or not, facilityCode, cardCode)
\* is determined by the pulses accepted since the previous clear alone: it is
\* what the same pulses give as the first frame after setup(), whatever frames
\* came before.
C13_OwnPulsesOnly ==
    pc \in Published =>
        [msg |-> pub.msg, facility |-> pub.facility, card |-> pub.card]
            = OwnOutcome(accepted)

\* the cells of the snapshot as a sequence, cell k at position k + 1
SnapBits == [k \in 1..MAX_BITS |-> snap.databits[k - 1]]

\* C14: what a pass publishes (the bit count, decoded or not, facilityCode and
\* cardCode) is what databits and bitCount held when line 106's test passed,
\* whatever pulses arrive while the block runs.
C14_FrozenOnReady ==
    pc \in Published =>
        /\ pub.bits = snap.bitCount
        /\ pub.msg = IF snap.bitCount \in {26, 35} THEN "Decoded"
                     ELSE "Unable to decode."
        /\ snap.bitCount = 35 =>
              /\ pub.facility = FieldValue(SnapBits, 2, 14)
              /\ pub.card = FieldValue(SnapBits, 14, 34)
        /\ snap.bitCount = 26 =>
              /\ pub.facility = FieldValue(SnapBits, 1, 9)
              /\ pub.card = FieldValue(SnapBits, 9, 25)

\* C15: a pulse arriving during the dwell or the clear is discarded or deferred:
\* at the step that ends the clear (the loop of line 178 exits) bitCount is 0
\* and every cell of databits is 0, so that bitCount counts only the pulses
\* accepted from then on and no cell below it has been erased.
C15_AtomicClear ==
    [][(pc = "L178" /\ pc' = "L183") =>
          /\ bitCount' = 0
          /\ \A n \in 0..(MAX_BITS - 1) : databits'[n] = 0]_vars

\* C16: the tick of lines 100-103, run with no handler inside it.  It writes
\* neither databits nor bitCount; with flagDone set it changes nothing; with
\* flagDone clear it takes 1 off weigand_counter and sets flagDone to 1 exactly
\* when the result is 0; nothing but line 102 sets flagDone to 1 and nothing
\* but a handler sets it to 0.
C16_TickEffect ==
    /\ [][Tick => UNCHANGED <<databits, bitCount>>]_vars
    /\ [][(pc = "L100" /\ pc' # pc) =>
             /\ UNCHANGED <<flagDone, weigand_counter>>
             /\ pc' = IF flagDone # 0 THEN "L106c" ELSE "L101r"]_vars
    /\ [][(pc = "L101r" /\ pc' # pc) =>
             (pc' = "L101w" /\ UNCHANGED <<flagDone, weigand_counter>>)]_vars
    /\ [][(pc = "L101w" /\ pc' # pc) =>
             /\ weigand_counter' = weigand_counter - 1
             /\ flagDone' = flagDone
             /\ pc' = IF weigand_counter' = 0 THEN "L102" ELSE "L106c"]_vars
    /\ [][(pc = "L102" /\ pc' # pc) =>
             (flagDone' = 1 /\ pc' = "L106c" /\ UNCHANGED weigand_counter)]_vars
    /\ [][flagDone' # flagDone =>
             IF flagDone' = 1 THEN pc = "L102" /\ pc' = "L106c"
             ELSE flagDone' = 0 /\ Pulse]_vars

\* the tick that ends the silence after a 26-bit frame has run: the countdown
\* is at 0 and the flag is set
C16_Witness ==
    /\ pc = "L106c"
    /\ Len(accepted) = LEN_26
    /\ bitCount = LEN_26
    /\ weigand_counter = 0
    /\ flagDone = 1
    /\ quiet = WEIGAND_WAIT_TIME

\* C17: whenever flagDone is 1 the countdown is at 0: no handler's reset of
\* the flag and the countdown is overtaken by a write of the tick under way.
C17_FlagImpliesZero == flagDone = 1 => weigand_counter = 0

\* C18: no handler call and no tick makes bitCount smaller: between two clears
\* the 8-bit counter never goes down, so it never wraps.
C18_CountNeverDrops ==
    [][(Pulse \/ Tick) => bitCount' >= bitCount]_vars

\* C19: while loop() is outside the block of line 106, every cell of databits
\* from index bitCount on is 0.
C19_TailIsZero ==
    pc \in TickPcs =>
        \A n \in 0..(MAX_BITS - 1) : n >= bitCount => databits[n] = 0

\* C20: --weigand_counter is never executed on a countdown of 0: line 101
\* never finds 0 in weigand_counter nor in the register it decrements, and the
\* countdown never holds the wrapped value 65535.
C20_NoUnderflow ==
    /\ weigand_counter # UINT_MOD - 1
    /\ pc = "L101r" => weigand_counter > 0
    /\ pc = "L101w" => rCounter > 0

\* a handler has run between line 101's load of 1 and its store: the store
\* about to happen writes 0 over the handler's WEIGAND_WAIT_TIME
C20_Witness ==
    /\ pc = "L101w"
    /\ rCounter = 1
    /\ weigand_counter = WEIGAND_WAIT_TIME
    /\ flagDone = 0
    /\ bitCount > 0

====
